---- MODULE Spec2Model ----
(***************************************************************************)
(* Model of bugzooka/integrations/slack_commands.py: the /summarise slash  *)
(* command handler, its duration parser, its environment validator and the *)
(* background worker it starts.                                            *)
(*                                                                         *)
(* A Python str is a sequence of one-character strings; "" is << >>.       *)
(* A Python exception leaving a function is a result with raised = TRUE.   *)
(***************************************************************************)
EXTENDS Integers, Sequences, FiniteSets, TLC

VARIABLES
    env,        \* os.environ: variable name -> value (Unset when not set)
    body,       \* per invocation: the body the runtime passed to the handler
    pc,         \* per invocation: position of handle_summarise_command
    acks,       \* per invocation: payloads of the ack() calls made so far
    captured,   \* per invocation: the closure cells _run_summary reads
    tpc,        \* per invocation: position of the worker thread in _run_summary
    posts,      \* per invocation: argument records of its post_time_summary calls
    errs,       \* per invocation: number of logger.error calls of its worker
    exc,        \* per invocation: the exception its worker caught ("none" if none)
    responds,   \* per invocation: payloads of the respond() calls of its worker
    ptext,      \* parser harness: the text handed to _parse_lookback_and_verbose
    presult,    \* parser harness: what it returned
    evar,       \* validator harness: the var_name handed to _ensure_required_env
    eresult     \* validator harness: what it returned

vars == <<env, body, pc, acks, captured, tpc, posts, errs, exc, responds,
          ptext, presult, evar, eresult>>

dispatchVars == <<body, pc, acks, captured, tpc, posts, errs, exc, responds>>
parseVars == <<ptext, presult>>
envVars == <<evar, eresult>>

-----------------------------------------------------------------------------
(* Bounds *)

\* number of command invocations delivered to the handler
NumInvocations == 2
\* longest run of digits in a generated command text
MaxDigits == 2
\* longest run of whitespace between the unit and the following word
MaxWs == 1

-----------------------------------------------------------------------------
(* Strings *)

UpperLetters == <<"A","B","C","D","E","F","G","H","I","J","K","L","M",
                  "N","O","P","Q","R","S","T","U","V","W","X","Y","Z">>
LowerLetters == <<"a","b","c","d","e","f","g","h","i","j","k","l","m",
                  "n","o","p","q","r","s","t","u","v","w","x","y","z">>
DigitChars == <<"0","1","2","3","4","5","6","7","8","9">>
SpaceChars == {" ", "\t", "\n"}

\* str.lower() on one character
LowerChar(c) ==
    IF \E k \in 1..26 : UpperLetters[k] = c
    THEN LowerLetters[CHOOSE k \in 1..26 : UpperLetters[k] = c]
    ELSE c

\* str.lower()
Lower(s) == [k \in 1..Len(s) |-> LowerChar(s[k])]

\* str.upper()
UpperChar(c) ==
    IF \E k \in 1..26 : LowerLetters[k] = c
    THEN UpperLetters[CHOOSE k \in 1..26 : LowerLetters[k] = c]
    ELSE c

Upper(s) == [k \in 1..Len(s) |-> UpperChar(s[k])]

RECURSIVE LStrip(_)
LStrip(s) ==
    IF s # << >> /\ Head(s) \in SpaceChars THEN LStrip(Tail(s)) ELSE s

RECURSIVE RStrip(_)
RStrip(s) ==
    IF s # << >> /\ s[Len(s)] \in SpaceChars
    THEN RStrip(SubSeq(s, 1, Len(s) - 1))
    ELSE s

\* str.strip()
Strip(s) == RStrip(LStrip(s))

IsDigit(c) == \E k \in 1..10 : DigitChars[k] = c
DigitVal(c) == (CHOOSE k \in 1..10 : DigitChars[k] = c) - 1

\* int(value) for a string of decimal digits
RECURSIVE ParseInt(_)
ParseInt(s) ==
    IF s = << >> THEN 0
    ELSE ParseInt(SubSeq(s, 1, Len(s) - 1)) * 10 + DigitVal(s[Len(s)])

\* needle in haystack
Contains(hay, needle) ==
    \E k \in 1..(Len(hay) - Len(needle) + 1) :
        SubSeq(hay, k, k + Len(needle) - 1) = needle

VerboseWord == <<"v","e","r","b","o","s","e">>

\* length of the longest prefix of s whose characters all satisfy the class
RECURSIVE DigitRun(_)
DigitRun(s) ==
    IF s # << >> /\ IsDigit(Head(s)) THEN 1 + DigitRun(Tail(s)) ELSE 0

RECURSIVE SpaceRun(_)
SpaceRun(s) ==
    IF s # << >> /\ Head(s) \in SpaceChars THEN 1 + SpaceRun(Tail(s)) ELSE 0

NoMatch == [matched |-> FALSE, value |-> << >>, unit |-> "", suffix |-> << >>]

\* re.match in place of re.fullmatch: the pattern need only match a prefix
FullMatch_prefix(s) ==
    LET n == DigitRun(s)
        rest == SubSeq(s, n + 2, Len(s))
        w == SpaceRun(rest)
    IN  IF n = 0 \/ Len(s) < n + 1 THEN NoMatch
        ELSE IF s[n + 1] \notin {"m", "h", "d"} THEN NoMatch
        ELSE IF w >= 1 /\ SubSeq(rest, w + 1, w + 7) = VerboseWord
             THEN [matched |-> TRUE, value |-> SubSeq(s, 1, n),
                   unit |-> s[n + 1], suffix |-> SubSeq(rest, 1, w + 7)]
        ELSE [matched |-> TRUE, value |-> SubSeq(s, 1, n),
              unit |-> s[n + 1], suffix |-> << >>]

\* re.fullmatch(r"(\d+)([mhd])(\s+verbose)?", s): the three groups, group 3
\* being << >> when it did not take part in the match
FullMatch(s) ==
    LET n == DigitRun(s)
        rest == SubSeq(s, n + 2, Len(s))
        w == SpaceRun(rest)
    IN  IF n = 0 \/ Len(s) < n + 1 THEN NoMatch
        ELSE IF s[n + 1] \notin {"m", "h", "d"} THEN NoMatch
        ELSE IF rest = << >>
             THEN [matched |-> TRUE, value |-> SubSeq(s, 1, n),
                   unit |-> s[n + 1], suffix |-> << >>]
        ELSE IF w >= 1 /\ SubSeq(rest, w + 1, Len(rest)) = VerboseWord
             THEN [matched |-> TRUE, value |-> SubSeq(s, 1, n),
                   unit |-> s[n + 1], suffix |-> rest]
        ELSE NoMatch

-----------------------------------------------------------------------------
(* _parse_lookback_and_verbose *)

\* imported from bugzooka.core.config, which sets its value; any positive
\* number of seconds serves here
SUMMARY_LOOKBACK_SECONDS == 604800

Returned(lookback, verbose) ==
    [raised |-> FALSE, lookback |-> lookback, verbose |-> verbose]
ParseRaised == [raised |-> TRUE, lookback |-> 0, verbose |-> FALSE]

\* {"m": 60, "h": 3600, "d": 86400}[unit]
factor(unit) ==
    CASE unit = "m" -> 60
      [] unit = "h" -> 3600
      [] unit = "d" -> 86400

\* text.strip() without .lower()
text_norm_cased(text) == Strip(text)

\* text.strip().lower()
text_norm(text) == Lower(Strip(text))

\* bool(verbose_suffix and verbose_suffix.strip())
verbose_of(verbose_suffix) ==
    verbose_suffix # << >> /\ Strip(verbose_suffix) # << >>

\* a strict parser: raise ValueError on a text that is no window
fallback_raises(norm) == ParseRaised

\* the return of the branch taken when the pattern does not match
fallback(norm) == Returned(SUMMARY_LOOKBACK_SECONDS, Contains(norm, VerboseWord))

_parse_lookback_and_verbose(text) ==
    IF text = << >> THEN Returned(SUMMARY_LOOKBACK_SECONDS, FALSE)
    ELSE LET norm == text_norm(text)
             m == FullMatch(norm)
         IN  IF ~m.matched THEN fallback(norm)
             ELSE Returned(ParseInt(m.value) * factor(m.unit),
                           verbose_of(m.suffix))

-----------------------------------------------------------------------------
(* _ensure_required_env *)

VarNames == {"PRODUCT", "CI", "SLACK_APP_TOKEN"}

\* what os.getenv gives: None for a variable that is not set, else its string
Unset == [set |-> FALSE, value |-> << >>]
SetTo(s) == [set |-> TRUE, value |-> s]

\* os.getenv(var_name)
getenv(e, var_name) == e[var_name]

EnvReturned(value) == [raised |-> FALSE, value |-> value, names |-> ""]
\* RuntimeError(f"Missing required environment variable: {var_name}")
EnvRaised(var_name) == [raised |-> TRUE, value |-> << >>, names |-> var_name]

\* "value is None": the empty string passes
IsFalsy_none_only(v) == ~v.set

\* "not value": true of None and of the empty string
IsFalsy(v) == ~v.set \/ v.value = << >>

\* os.getenv(var_name, ""): a default in place of the raise
_ensure_required_env_default(e, var_name) ==
    EnvReturned(getenv(e, var_name).value)

_ensure_required_env(e, var_name) ==
    LET value == getenv(e, var_name)
    IN  IF IsFalsy(value) THEN EnvRaised(var_name) ELSE EnvReturned(value.value)

-----------------------------------------------------------------------------
(* Inputs *)

RECURSIVE SeqsUpTo(_, _)
\* all sequences over S of length at most n
SeqsUpTo(S, n) ==
    IF n = 0 THEN {<< >>}
    ELSE LET shorter == SeqsUpTo(S, n - 1)
         IN  shorter \cup {Append(s, c) : s \in shorter, c \in S}

TextDigits == SeqsUpTo({"0", "1", "2"}, MaxDigits)
TextUnits == {<< >>, <<"m">>, <<"h">>, <<"d">>, <<"H">>, <<"D">>, <<"x">>}
TextGaps == SeqsUpTo({" ", "\t"}, MaxWs)
TextWords ==
    {<< >>, VerboseWord, <<"V","e","r","b","o","s","e">>,
     <<"v","e","r","b","o","s">>,
     <<"v","e","r","b","o","s","e"," ","x">>,
     <<"g"," ","v","e","r","b","o","s","e"," ","t">>,
     <<"v","e","r","b","o","s","e"," ","2","m">>}
TextEdges == {<< >>, <<" ">>}

\* the command texts the parser is exercised on
Texts ==
    {a \o n \o u \o g \o w \o z :
        a \in TextEdges, n \in TextDigits, u \in TextUnits,
        g \in TextGaps, w \in TextWords, z \in TextEdges}

EnvValues == {Unset, SetTo(<< >>), SetTo(<<"o","c","p">>), SetTo(<<"P","r","o","w">>)}
\* the values PRODUCT and CI take while the handler is exercised
HandlerEnvValues == {Unset, SetTo(<< >>), SetTo(<<"o","c","p">>)}

NoChannel == "None"
\* body: present = FALSE is a body of None; hasText / hasChannel say whether
\* the dict holds the key
NoBody == [present |-> FALSE, hasText |-> FALSE, text |-> << >>,
           hasChannel |-> FALSE, channel_id |-> NoChannel]
Body(hasText, text, hasChannel, channel) ==
    [present |-> TRUE, hasText |-> hasText, text |-> text,
     hasChannel |-> hasChannel, channel_id |-> channel]

\* the bodies the runtime delivers: none at all; one without a text; a
\* whitespace-only text and no channel; a window in mixed case with a verbose
\* suffix and a trailing blank
Bodies ==
    {NoBody,
     Body(FALSE, << >>, TRUE, "C1"),
     Body(TRUE, <<" ">>, FALSE, NoChannel),
     Body(TRUE, <<"1","H"," ","V","e","r","b","o","s","e"," ">>, TRUE, "C2")}

Invocations == 1..NumInvocations

-----------------------------------------------------------------------------
(* Harness for the two pure functions *)

NotCalled == [called |-> FALSE]

ParseCall ==
    /\ ~presult.called
    /\ presult' = [called |-> TRUE, result |-> _parse_lookback_and_verbose(ptext)]
    /\ UNCHANGED <<env, dispatchVars, ptext, envVars>>

EnsureCall(var_name) ==
    /\ ~eresult.called
    /\ evar' = var_name
    /\ eresult' = [called |-> TRUE, result |-> _ensure_required_env(env, var_name)]
    /\ UNCHANGED <<env, dispatchVars, parseVars>>


-----------------------------------------------------------------------------
(* handle_summarise_command *)

\* (body or {}).get("text", "")
body_text(b) == IF b.present /\ b.hasText THEN b.text ELSE << >>

\* (body or {}).get("channel_id")
body_channel(b) == IF b.present /\ b.hasChannel THEN b.channel_id ELSE NoChannel

LastPrefix == <<"l","a","s","t"," ">>
DefaultWindow == <<"d","e","f","a","u","l","t"," ","w","i","n","d","o","w">>

\* the window described from the normalised text instead of the raw one
window_str_norm(text) ==
    IF Strip(text) # << >> THEN LastPrefix \o text_norm(text) ELSE DefaultWindow

\* f"last {text.strip()}" if text.strip() else "default window"
window_str(text) ==
    IF Strip(text) # << >> THEN LastPrefix \o Strip(text) ELSE DefaultWindow

\* the payload handed to ack(): "Starting summary for {window_str}. ..."
AckPayload(text) == [response_type |-> "ephemeral", window |-> window_str(text)]

\* the handler's locals that _run_summary closes over, before they are bound
NoLocals ==
    [lookback_seconds |-> 0, verbose |-> FALSE, channel_id |-> NoChannel,
     product |-> << >>, ci |-> << >>, product_config |-> << >>]

\* get_product_config(product): an opaque value looked up by product
ProductConfig(product) == <<"config">> \o product

\* lines 69-79: read the text, parse it, acknowledge.  ack() itself may raise.
Invoke(i) ==
    /\ pc[i] = "idle"
    /\ IF i = 1 THEN TRUE ELSE pc[i - 1] # "idle"
    /\ \E b \in Bodies, ackOk \in BOOLEAN :
        LET text == body_text(b)
            parsed == _parse_lookback_and_verbose(text)
        IN  /\ body' = [body EXCEPT ![i] = b]
            /\ IF parsed.raised
               THEN /\ pc' = [pc EXCEPT ![i] = "raised_parse"]
                    /\ UNCHANGED <<acks, captured>>
               ELSE /\ acks' = [acks EXCEPT ![i] = Append(@, AckPayload(text))]
                    /\ captured' = [captured EXCEPT ![i] =
                          [@ EXCEPT !.lookback_seconds = parsed.lookback,
                                    !.verbose = parsed.verbose]]
                    /\ pc' = [pc EXCEPT ![i] = IF ackOk THEN "acked" ELSE "raised_ack"]
    /\ UNCHANGED <<env, tpc, posts, errs, exc, responds, parseVars, envVars>>

\* lines 82-85: channel id, PRODUCT, CI, product configuration
Resolve(i) ==
    /\ pc[i] = "acked"
    /\ \E configOk \in BOOLEAN :
        LET product == _ensure_required_env(env, "PRODUCT")
            ci == _ensure_required_env(env, "CI")
        IN  IF product.raised \/ ci.raised
            THEN /\ pc' = [pc EXCEPT ![i] = "raised_env"]
                 /\ UNCHANGED captured
            ELSE IF ~configOk
            THEN /\ pc' = [pc EXCEPT ![i] = "raised_config"]
                 /\ UNCHANGED captured
            ELSE /\ pc' = [pc EXCEPT ![i] = "resolved"]
                 /\ captured' = [captured EXCEPT ![i] =
                       [@ EXCEPT !.channel_id = body_channel(body[i]),
                                 !.product = Upper(product.value),
                                 !.ci = Upper(ci.value),
                                 !.product_config = ProductConfig(Upper(product.value))]]
    /\ UNCHANGED <<env, body, acks, tpc, posts, errs, exc, responds, parseVars, envVars>>

\* lines 111-113: threading.Thread(target=_run_summary, ...).start()
Spawn(i) ==
    /\ pc[i] = "resolved"
    /\ pc' = [pc EXCEPT ![i] = "spawned"]
    /\ tpc' = [tpc EXCEPT ![i] = "started"]
    /\ UNCHANGED <<env, body, acks, captured, posts, errs, exc, responds,
                   parseVars, envVars>>

\* the handler joins the worker before it returns
Return_join(i) ==
    /\ pc[i] = "spawned"
    /\ tpc[i] = "done"
    /\ pc' = [pc EXCEPT ![i] = "returned"]
    /\ UNCHANGED <<env, body, acks, captured, tpc, posts, errs, exc, responds,
                   parseVars, envVars>>

\* the handler returns once start() has returned; it holds no handle on the thread
Return(i) ==
    /\ pc[i] = "spawned"
    /\ pc' = [pc EXCEPT ![i] = "returned"]
    /\ UNCHANGED <<env, body, acks, captured, tpc, posts, errs, exc, responds,
                   parseVars, envVars>>

-----------------------------------------------------------------------------
(* _run_summary, on the worker thread of invocation i *)

\* _run_summary reading module-level globals that every invocation rebinds:
\* the values of the latest invocation
TaskArgs_latest(i) ==
    captured[CHOOSE j \in Invocations :
                /\ pc[j] # "idle"
                /\ \A k \in Invocations : pc[k] # "idle" => k <= j]

\* the values the closure of invocation i reads
TaskArgs(i) == captured[i]

\* lines 89-98: construct the fetcher; if that succeeds, enter post_time_summary
RunStart(i) ==
    /\ tpc[i] = "started"
    /\ \E ctorOk \in BOOLEAN :
        IF ctorOk
        THEN /\ posts' = [posts EXCEPT ![i] = Append(@, TaskArgs(i))]
             /\ tpc' = [tpc EXCEPT ![i] = "in_post"]
             /\ UNCHANGED exc
        ELSE /\ tpc' = [tpc EXCEPT ![i] = "caught"]
             /\ exc' = [exc EXCEPT ![i] = "fetcher_error"]
             /\ UNCHANGED posts
    /\ UNCHANGED <<env, body, pc, acks, captured, errs, responds, parseVars, envVars>>

\* post_time_summary returns or raises
PostReturn(i) ==
    /\ tpc[i] = "in_post"
    /\ \E ok \in BOOLEAN :
        IF ok
        THEN /\ tpc' = [tpc EXCEPT ![i] = "done"]
             /\ UNCHANGED exc
        ELSE /\ tpc' = [tpc EXCEPT ![i] = "caught"]
             /\ exc' = [exc EXCEPT ![i] = "summary_error"]
    /\ UNCHANGED <<env, body, pc, acks, captured, posts, errs, responds,
                   parseVars, envVars>>

\* line 100: logger.error("/summarise failed: %s", e)
LogError(i) ==
    /\ tpc[i] = "caught"
    /\ errs' = [errs EXCEPT ![i] = @ + 1]
    /\ tpc' = [tpc EXCEPT ![i] = "logged"]
    /\ UNCHANGED <<env, body, pc, acks, captured, posts, exc, responds,
                   parseVars, envVars>>

\* no inner try/except: an exception of respond() leaves _run_summary
AfterRespond_propagates(ok) == IF ok THEN "done" ELSE "crashed"

\* where the worker is after respond() returned (ok) or raised: the inner
\* except clause swallows the exception and the function ends
AfterRespond(ok) == "done"

\* lines 101-109: respond({... f"Summary failed: {e}"}), best effort
Respond(i) ==
    /\ tpc[i] = "logged"
    /\ responds' = [responds EXCEPT ![i] =
          Append(@, [response_type |-> "ephemeral", text |-> "Summary failed",
                     error |-> exc[i]])]
    /\ \E ok \in BOOLEAN : tpc' = [tpc EXCEPT ![i] = AfterRespond(ok)]
    /\ UNCHANGED <<env, body, pc, acks, captured, posts, errs, exc,
                   parseVars, envVars>>

-----------------------------------------------------------------------------
(* Specifications *)

DispatchIdle ==
    /\ body = [i \in Invocations |-> NoBody]
    /\ pc = [i \in Invocations |-> "idle"]
    /\ acks = [i \in Invocations |-> << >>]
    /\ captured = [i \in Invocations |-> NoLocals]
    /\ tpc = [i \in Invocations |-> "none"]
    /\ posts = [i \in Invocations |-> << >>]
    /\ errs = [i \in Invocations |-> 0]
    /\ exc = [i \in Invocations |-> "none"]
    /\ responds = [i \in Invocations |-> << >>]

HarnessIdle ==
    /\ ptext = << >>
    /\ presult = NotCalled
    /\ evar = ""
    /\ eresult = NotCalled

\* the handler runs under main(), which needs SLACK_APP_TOKEN set
Init ==
    /\ env \in {e \in [VarNames -> HandlerEnvValues] :
                    e["SLACK_APP_TOKEN"] = SetTo(<<"o","c","p">>)}
    /\ DispatchIdle
    /\ HarnessIdle

Next ==
    \E i \in Invocations :
        \/ Invoke(i)
        \/ Resolve(i)
        \/ Spawn(i)
        \/ Return(i)
        \/ RunStart(i)
        \/ PostReturn(i)
        \/ LogError(i)
        \/ Respond(i)

Spec == Init /\ [][Next]_vars

\* the parser applied to every text of Texts
InitParse ==
    /\ env = [v \in VarNames |-> Unset]
    /\ DispatchIdle
    /\ ptext \in Texts
    /\ presult = NotCalled
    /\ evar = ""
    /\ eresult = NotCalled

NextParse == ParseCall

SpecParse == InitParse /\ [][NextParse]_vars

\* the validator applied to every variable name in every environment
InitEnv ==
    /\ env \in [VarNames -> EnvValues]
    /\ DispatchIdle
    /\ HarnessIdle

NextEnv == \E v \in VarNames : EnsureCall(v)

SpecEnv == InitEnv /\ [][NextEnv]_vars


-----------------------------------------------------------------------------
(* Properties *)

HandlerEntered(i) == pc[i] # "idle"
AckSent(i) == Len(acks[i]) >= 1 /\ pc[i] \notin {"idle", "raised_ack", "raised_parse"}
HandlerFinished(i) ==
    pc[i] \in {"returned", "raised_ack", "raised_parse", "raised_env", "raised_config"}
TaskSpawned(i) == tpc[i] # "none"

\* C1: every invocation that has entered the handler has called ack() exactly
\* once, whatever its body and text, and no worker thread exists and no step
\* of _run_summary has run for an invocation whose ack() call has not been made.
C1_AckOnceBeforeBackgroundWork ==
    \A i \in Invocations :
        /\ HandlerEntered(i) => Len(acks[i]) = 1
        /\ ~HandlerEntered(i) => acks[i] = << >>
        /\ TaskSpawned(i) => Len(acks[i]) = 1
        /\ \A k \in DOMAIN acks[i] : acks[i][k].response_type = "ephemeral"

\* an invocation with no body at all whose worker is inside the fetcher
C1_Witness ==
    \E i \in Invocations :
        ~body[i].present /\ tpc[i] = "in_post" /\ Len(acks[i]) = 1

\* C2: the number of worker threads spawned equals the number of invocations
\* whose ack() succeeded and whose handler call has finished.
C2_OneTaskPerAcknowledgedInvocation ==
    Cardinality({i \in Invocations : TaskSpawned(i)})
        = Cardinality({i \in Invocations : AckSent(i) /\ HandlerFinished(i)})

\* the characters 1..k of t are digits, t[k+1] is a unit, and what follows is
\* nothing (w = 0) or w >= 1 blanks and the word verbose
WindowForm(t, k, w) ==
    /\ k >= 1 /\ k + 1 <= Len(t)
    /\ \A j \in 1..k : t[j] \in {"0","1","2","3","4","5","6","7","8","9"}
    /\ t[k + 1] \in {"m", "h", "d"}
    /\ IF w = 0 THEN Len(t) = k + 1
       ELSE /\ Len(t) = k + 1 + w + 7
            /\ \A j \in (k + 2)..(k + 1 + w) : t[j] \in SpaceChars
            /\ \A j \in 1..7 : t[k + 1 + w + j] = VerboseWord[j]

IsWindow(t) == \E k \in 1..Len(t), w \in 0..Len(t) : WindowForm(t, k, w)

RECURSIVE Decimal(_, _)
\* the number the first k characters of t denote
Decimal(t, k) ==
    IF k = 0 THEN 0 ELSE DigitVal(t[k]) + 10 * Decimal(t, k - 1)

UnitSeconds(u) == IF u = "m" THEN 60 ELSE IF u = "h" THEN 3600 ELSE 86400

\* C3: for a text that, trimmed and lowercased, is <digits><unit> optionally
\* followed by blanks and verbose, the parser returns N * seconds(unit) and
\* verbose exactly when the suffix is there.
C3_WindowParsed ==
    presult.called =>
        LET t == Lower(Strip(ptext))
        IN  \A k \in 1..Len(t), w \in 0..Len(t) :
                WindowForm(t, k, w) =>
                    presult.result =
                        Returned(Decimal(t, k) * UnitSeconds(t[k + 1]), w >= 1)

\* " 12H Verbose ": trimmed, lowercased, twelve hours, verbose
C3_Witness ==
    /\ presult.called
    /\ ptext = <<" ","1","2","H"," ","V","e","r","b","o","s","e"," ">>
    /\ presult.result = Returned(43200, TRUE)

HasVerbose(t) ==
    \E k \in 0..(Len(t) - 7) : \A j \in 1..7 : t[k + j] = VerboseWord[j]

C5_FailureIsLoggedOnceAndContained ==
    \A i \in Invocations :
        /\ tpc[i] # "crashed"
        /\ Len(posts[i]) <= 1
        /\ Len(responds[i]) <= 1
        /\ exc[i] = "none" => errs[i] = 0 /\ responds[i] = << >>
        /\ exc[i] # "none" /\ tpc[i] \in {"logged", "done"} => errs[i] = 1
        /\ exc[i] # "none" => errs[i] <= 1 /\ tpc[i] \in {"caught", "logged", "done"}
        /\ Len(responds[i]) = 1 => tpc[i] = "done"
        /\ \A k \in DOMAIN responds[i] :
              responds[i][k] = [response_type |-> "ephemeral",
                                text |-> "Summary failed", error |-> exc[i]]

\* post_time_summary raised, the error was logged and respond() was called
C5_Witness ==
    \E i \in Invocations :
        /\ exc[i] = "summary_error" /\ tpc[i] = "done"
        /\ errs[i] = 1 /\ Len(responds[i]) = 1

\* what post_time_summary must be called with for invocation i, from the
\* invocation's body and the environment
ExpectedArgs(i) ==
    LET text == IF body[i].present /\ body[i].hasText THEN body[i].text ELSE << >>
        window == _parse_lookback_and_verbose(text)
    IN  [lookback_seconds |-> window.lookback,
         verbose |-> window.verbose,
         channel_id |-> IF body[i].present /\ body[i].hasChannel
                        THEN body[i].channel_id ELSE NoChannel,
         product |-> Upper(env["PRODUCT"].value),
         ci |-> Upper(env["CI"].value),
         product_config |-> ProductConfig(Upper(env["PRODUCT"].value))]

\* C6: there is one worker per invocation that reached the spawn, and every
\* post_time_summary call of a worker carries the values of its own invocation.
C6_TasksAreIndependent ==
    \A i \in Invocations :
        /\ TaskSpawned(i) <=> pc[i] \in {"spawned", "returned"}
        /\ \A k \in DOMAIN posts[i] : posts[i][k] = ExpectedArgs(i)

\* two workers inside the fetcher at once, called with different values
C6_Witness ==
    \E i, j \in Invocations :
        /\ i < j
        /\ tpc[i] = "in_post" /\ tpc[j] = "in_post"
        /\ posts[i] # posts[j]

\* C7: _ensure_required_env returns the value of a variable set to a non-empty
\* string, raises an error naming the variable when it is unset or empty, and
\* never returns an empty value.
C7_RequiredEnv ==
    eresult.called =>
        LET v == env[evar]
            r == eresult.result
        IN  /\ (v.set /\ v.value # << >>) => ~r.raised /\ r.value = v.value
            /\ (~v.set \/ v.value = << >>) => r.raised /\ r.names = evar
            /\ ~r.raised => r.value # << >>

\* a variable set to the empty string
C7_Witness ==
    /\ eresult.called
    /\ env[evar] = SetTo(<< >>)
    /\ eresult.result.raised

EnvMissing ==
    \E v \in {"PRODUCT", "CI"} : ~env[v].set \/ env[v].value = << >>

\* C8: when PRODUCT or CI is unset or empty, or get_product_config fails, the
\* ack has been sent, the handler ends by raising, no worker is spawned and
\* respond() is never called for the invocation.
C8_ResolutionFailureAfterAck ==
    \A i \in Invocations :
        /\ pc[i] \in {"raised_env", "raised_config"} =>
              /\ Len(acks[i]) = 1
              /\ ~TaskSpawned(i)
              /\ posts[i] = << >> /\ responds[i] = << >> /\ errs[i] = 0
        /\ pc[i] = "raised_env" => EnvMissing
        /\ EnvMissing =>
              /\ pc[i] \in {"idle", "acked", "raised_ack", "raised_env"}
              /\ ~TaskSpawned(i)

\* CI set to the empty string with PRODUCT set
C8_Witness ==
    \E i \in Invocations :
        /\ pc[i] = "raised_env"
        /\ env["PRODUCT"] = SetTo(<<"o","c","p">>)
        /\ env["CI"] = SetTo(<< >>)
        /\ Len(acks[i]) = 1

\* C9: once the worker thread is started the handler can return, whatever
\* the worker is doing.
C9_HandlerNeverWaits ==
    \A i \in Invocations : pc[i] = "spawned" => ENABLED Return(i)

\* the handler has returned and its worker is still inside the fetcher
C9_Witness ==
    \E i \in Invocations : pc[i] = "returned" /\ tpc[i] = "in_post"

\* C10: an ack that says "default window" goes with a text that is empty
\* after trimming, the default lookback and verbose off, in the handler's
\* locals and in every call of the fetcher; any other ack says "last "
\* followed by the trimmed text in its original case.
C10_AckAgreesWithWindow ==
    \A i \in Invocations :
        \A k \in DOMAIN acks[i] :
            LET text == IF body[i].present /\ body[i].hasText
                        THEN body[i].text ELSE << >>
            IN  IF acks[i][k].window = DefaultWindow
                THEN /\ Strip(text) = << >>
                     /\ captured[i].lookback_seconds = SUMMARY_LOOKBACK_SECONDS
                     /\ ~captured[i].verbose
                     /\ \A n \in DOMAIN posts[i] :
                           /\ posts[i][n].lookback_seconds = SUMMARY_LOOKBACK_SECONDS
                           /\ ~posts[i][n].verbose
                ELSE /\ Strip(text) # << >>
                     /\ acks[i][k].window = LastPrefix \o Strip(text)

\* a blank text acknowledged as the default window, and the fetcher called
C10_Witness ==
    \E i \in Invocations :
        /\ body[i].present /\ body[i].text = <<" ">>
        /\ acks[i] # << >> /\ acks[i][1].window = DefaultWindow
        /\ Len(posts[i]) = 1


====
